---- MODULE Spec2Model ----
(***************************************************************************)
(* Model of the Atom class of solid-atom (src/src/lib/util.ts).            *)
(*                                                                         *)
(* The parts that carry state are modelled as state machines:              *)
(*   - Atom.defer    : the `clear` slot, the scheduled calls and the       *)
(*                     microtask queue on which the async setter resumes,  *)
(*                     under a scheduler that honours cancellation and     *)
(*                     under a scheduler of any behaviour;                 *)
(*   - Atom.source   : the memo over `bind` and the cells it resolves to;  *)
(*   - Atom.selector : the parent value and the boolean views over it;     *)
(*   - Atom.unwrap   : the Atom the accessor returns and the Atoms' cells; *)
(*   - Atom.value with readOnly, convert and update over its cell.         *)
(* Each has its own specification; the variables of the others stay at     *)
(* their idle values.                                                      *)
(***************************************************************************)
EXTENDS Integers, Sequences, FiniteSets, TLC

\* ---------------------------------------------------------------- bounds
NumVals == 3
MaxSets == 3
MaxCells == 2
NExt == 2
NViews == 2

Values == 1..NumVals

\* ------------------------------------------------------------- constants
\* NO_OP as the content of the `clear` slot: "no cancel callback held"
NO_OP == 0
\* `undefined` as the result of `bind`
Undef == 0
\* the value the caller's cell factory puts in a new cell (createSignal(12) in the README)
FactoryInit == 1

VARIABLES
    \* ---- a.defer(schedule)
    aVal,        \* value of the underlying Atom a
    clear,       \* the `clear` slot: NO_OP or k, the cancel callback returned by schedule for call k
    calls,       \* the calls of d.set so far: [v, st], st in scheduled / cancelled / fired / done
    micro,       \* microtask queue: calls whose promise is resolved and whose setter has not resumed yet
    written,     \* history: the calls whose value was written to a, in order
    superseded,  \* history: the calls that saw a later d.set while their trigger had not fired
    \* ---- Atom.source(bind, f)
    propAtom,    \* signal read by bind: Undef or the external Atom supplied
    enabled,     \* second signal read by bind
    ext,         \* values of the cells behind the external Atoms
    local,       \* values of the cells made by the cell factory f, in order of creation
    target,      \* value of the memo: <<"ext", i>> or <<"loc", n>>
    fbWritten,   \* history: the last value written through s while bind returned undefined (0: none)
    wasExt,      \* history: bind returned an external Atom since that write
    \* ---- p.selector(comp)
    parent,      \* value of the parent Atom p
    cand,        \* value returned by the candidate accessor f of each view
    def,         \* default value of each view
    comp,        \* the comparer the factory was built with
    \* ---- a = Atom.value(v), r = Atom.readOnly(a.get), c = a.convert(To, From)
    cell,        \* value stored in the signal behind a
    ret,         \* value returned by the last read or update
    err,         \* the last operation raised an error
    dep,         \* the calling computation has a dependency on the signal
    nw,          \* history: number of calls of a.set made by the last operation
    lastW,       \* history: the value passed to the last call of a.set (initially v)
    \* ---- history of the last operation
    last

deferVars == <<aVal, clear, calls, micro, written, superseded>>
sourceVars == <<propAtom, enabled, ext, local, target, fbWritten, wasExt>>
selectorVars == <<parent, cand, def, comp>>
cellVars == <<cell, ret, err, dep, nw, lastW>>
vars == <<deferVars, sourceVars, selectorVars, cellVars, last>>

\* last operation: its name, the object it acted on, its argument and what it
\* found: the parent's value for a write to a selector view or to the parent,
\* the content of the clear slot for a step of a deferred setter
OpP(o, i, v, p) == [op |-> o, i |-> i, v |-> v, p |-> p]
Op(o, i, v) == OpP(o, i, v, 0)

\* =================================================================== defer

DeferInit ==
    /\ aVal \in Values
    /\ clear = NO_OP
    /\ calls = << >>
    /\ micro = << >>
    /\ written = << >>
    /\ superseded = {}

DeferIdle ==
    /\ aVal = 1
    /\ clear = NO_OP
    /\ calls = << >>
    /\ micro = << >>
    /\ written = << >>
    /\ superseded = {}

\* The calls whose trigger is outstanding: scheduled, not cancelled, not fired
Outstanding == {k \in 1..Len(calls) : calls[k].st = "scheduled"}

\* clear(): the callback held in the slot is invoked. NO_OP does nothing; the
\* cancel callback of call k stops k's trigger if it has not fired yet and has
\* no effect otherwise.
InvokeClear(cs, c) ==
    IF c # NO_OP /\ cs[c].st = "scheduled"
    THEN [cs EXCEPT ![c].st = "cancelled"]
    ELSE cs

\* Variant of DeferSet: the value is written at once as well
DeferSet_Eager(v) ==
    /\ Len(calls) < MaxSets
    /\ calls' = Append(InvokeClear(calls, clear), [v |-> v, st |-> "scheduled"])
    /\ clear' = Len(calls) + 1
    /\ superseded' = superseded \cup Outstanding
    /\ last' = OpP("dset", Len(calls) + 1, v, clear)
    /\ aVal' = v
    /\ UNCHANGED <<micro, written>>
    /\ UNCHANGED <<sourceVars, selectorVars, cellVars>>

\* d.set(v) up to its await: clear(), then schedule(t) and clear = its result
DeferSet(v) ==
    /\ Len(calls) < MaxSets
    /\ calls' = Append(InvokeClear(calls, clear), [v |-> v, st |-> "scheduled"])
    /\ clear' = Len(calls) + 1
    /\ superseded' = superseded \cup Outstanding
    /\ last' = OpP("dset", Len(calls) + 1, v, clear)
    /\ UNCHANGED <<aVal, micro, written>>
    /\ UNCHANGED <<sourceVars, selectorVars, cellVars>>

\* The scheduler invokes the trigger t of call k: the promise is resolved and
\* the rest of the setter is queued as a microtask
TriggerFire(k) ==
    /\ k \in Outstanding
    /\ calls' = [calls EXCEPT ![k].st = "fired"]
    /\ micro' = Append(micro, k)
    /\ last' = Op("fire", k, calls[k].v)
    /\ UNCHANGED <<aVal, clear, written, superseded>>
    /\ UNCHANGED <<sourceVars, selectorVars, cellVars>>

\* The setter of the call at the head of the microtask queue resumes after its
\* await: clear = NO_OP; this.value = v
DeferResume ==
    /\ micro # << >>
    /\ LET k == Head(micro) IN
        /\ micro' = Tail(micro)
        /\ clear' = NO_OP
        /\ aVal' = calls[k].v
        /\ calls' = [calls EXCEPT ![k].st = "done"]
        /\ written' = Append(written, k)
        /\ last' = OpP("resume", k, calls[k].v, clear)
    /\ UNCHANGED superseded
    /\ UNCHANGED <<sourceVars, selectorVars, cellVars>>

\* A write made directly to the underlying Atom: a.set(v)
ASet(v) ==
    /\ aVal' = v
    /\ last' = Op("aset", 0, v)
    /\ UNCHANGED <<clear, calls, micro, written, superseded>>
    /\ UNCHANGED <<sourceVars, selectorVars, cellVars>>

\* d.get(): the getter of a, unchanged
DeferGet == aVal

\* Variant of TriggerInvoke: every call of t queues the rest of the setter
TriggerInvoke_EveryCall(k) ==
    /\ k \in 1..Len(calls)
    /\ calls' = [calls EXCEPT ![k].st = "fired"]
    /\ micro' = Append(micro, k)
    /\ last' = OpP("invoke", k, calls[k].v, calls[k].st)
    /\ UNCHANGED <<aVal, clear, written, superseded>>
    /\ UNCHANGED <<sourceVars, selectorVars, cellVars>>

\* A scheduler of any behaviour calls the trigger t of call k, be it for the
\* first time or again, before or after k's cancel callback was invoked. t is
\* the resolve function of the promise: only its first call settles the
\* promise and queues the rest of the setter.
TriggerInvoke(k) ==
    /\ k \in 1..Len(calls)
    /\ IF calls[k].st \in {"scheduled", "cancelled"}
       THEN /\ calls' = [calls EXCEPT ![k].st = "fired"]
            /\ micro' = Append(micro, k)
       ELSE UNCHANGED <<calls, micro>>
    /\ last' = OpP("invoke", k, calls[k].v, calls[k].st)
    /\ UNCHANGED <<aVal, clear, written, superseded>>
    /\ UNCHANGED <<sourceVars, selectorVars, cellVars>>

\* defer under a scheduler of any behaviour
DeferAnyNext ==
    \/ \E v \in Values : DeferSet(v)
    \/ \E k \in 1..MaxSets : TriggerInvoke(k)
    \/ DeferResume
    \/ \E v \in Values : ASet(v)

DeferNext ==
    \/ \E v \in Values : DeferSet(v)
    \/ \E k \in 1..MaxSets : TriggerFire(k)
    \/ DeferResume
    \/ \E v \in Values : ASet(v)

\* ================================================================== source

\* The caller's bind accessor; it reads the two signals propAtom and enabled
BindOf(e, p) == IF e THEN p ELSE Undef
Bind == BindOf(enabled, propAtom)

\* unwrap's getter over the memo: f().value
SourceGet == IF target[1] = "ext" THEN ext[target[2]] ELSE local[target[2]]

SourceInit ==
    /\ propAtom \in 0..NExt
    /\ enabled \in BOOLEAN
    /\ ext \in [1..NExt -> Values]
    /\ IF Bind # Undef
       THEN local = << >> /\ target = <<"ext", Bind>>
       ELSE local = <<FactoryInit>> /\ target = <<"loc", 1>>
    /\ fbWritten = 0
    /\ wasExt = FALSE

SourceIdle ==
    /\ propAtom = 1
    /\ enabled = TRUE
    /\ ext = [i \in 1..NExt |-> 1]
    /\ local = << >>
    /\ target = <<"ext", 1>>
    /\ fbWritten = 0
    /\ wasExt = FALSE

\* Variant of Recompute: one fallback cell, made on first need and kept
Recompute_KeepFallback(x) ==
    IF x # Undef
    THEN /\ target' = <<"ext", x>>
         /\ local' = local
    ELSE /\ Len(local) < MaxCells
         /\ local' = (IF local = << >> THEN <<FactoryInit>> ELSE local)
         /\ target' = <<"loc", 1>>

\* Variant of Recompute: the operands of ?? exchanged, the fallback always wins
Recompute_AlwaysLocal(x) ==
    /\ Len(local) < MaxCells
    /\ local' = Append(local, FactoryInit)
    /\ target' = <<"loc", Len(local) + 1>>

\* Variant of Recompute: the new fallback cell starts from the value s had
Recompute_CopyIn(x) ==
    IF x # Undef
    THEN /\ target' = <<"ext", x>>
         /\ local' = local
    ELSE /\ Len(local) < MaxCells
         /\ local' = Append(local, SourceGet)
         /\ target' = <<"loc", Len(local) + 1>>

\* The memo createMemo(on(bind, x => x ?? this.from(f()))) runs again after a
\* signal bind reads has changed: x is the new result of bind
Recompute(x) ==
    IF x # Undef
    THEN /\ target' = <<"ext", x>>
         /\ local' = local
    ELSE /\ Len(local) < MaxCells
         /\ local' = Append(local, FactoryInit)
         /\ target' = <<"loc", Len(local) + 1>>

\* props.atom changes to x (a signal notifies only when its value changes)
PropsSet(x) ==
    /\ x # propAtom
    /\ propAtom' = x
    /\ Recompute(BindOf(enabled, x))
    /\ wasExt' = (wasExt \/ BindOf(enabled, x) # Undef)
    /\ last' = Op("bind", Bind, BindOf(enabled, x))
    /\ UNCHANGED <<enabled, ext, fbWritten>>
    /\ UNCHANGED <<deferVars, selectorVars, cellVars>>

\* the other signal read by bind is flipped
EnabledFlip ==
    /\ enabled' = ~enabled
    /\ Recompute(BindOf(~enabled, propAtom))
    /\ wasExt' = (wasExt \/ BindOf(~enabled, propAtom) # Undef)
    /\ last' = Op("bind", Bind, BindOf(~enabled, propAtom))
    /\ UNCHANGED <<propAtom, ext, fbWritten>>
    /\ UNCHANGED <<deferVars, selectorVars, cellVars>>

\* s.set(w): unwrap's setter over the memo, f().value = w
SourceSet(w) ==
    /\ IF target[1] = "ext"
       THEN /\ ext' = [ext EXCEPT ![target[2]] = w]
            /\ UNCHANGED <<local, fbWritten, wasExt>>
       ELSE /\ local' = [local EXCEPT ![target[2]] = w]
            /\ fbWritten' = w
            /\ wasExt' = FALSE
            /\ UNCHANGED ext
    /\ last' = Op("sset", 0, w)
    /\ UNCHANGED <<propAtom, enabled, target>>
    /\ UNCHANGED <<deferVars, selectorVars, cellVars>>

\* E_i.set(w): a write made directly to an external Atom
ExtSet(i, w) ==
    /\ ext' = [ext EXCEPT ![i] = w]
    /\ last' = Op("eset", i, w)
    /\ UNCHANGED <<propAtom, enabled, local, target, fbWritten, wasExt>>
    /\ UNCHANGED <<deferVars, selectorVars, cellVars>>

SourceNext ==
    \/ \E x \in 0..NExt : PropsSet(x)
    \/ EnabledFlip
    \/ \E w \in Values : SourceSet(w)
    \/ \E i \in 1..NExt, w \in Values : ExtSet(i, w)

\* ================================================================ selector

Views == 1..NViews
Comparers == {"eq", "par"}

\* comp(a, b): the default equalFn (a === b), or a caller's comparer (same parity)
Comp(c, a, b) == IF c = "eq" THEN a = b ELSE a % 2 = b % 2

SelectorInit ==
    /\ parent \in Values
    /\ cand \in [Views -> Values]
    /\ def \in [Views -> Values]
    /\ comp \in Comparers

SelectorIdle ==
    /\ parent = 1
    /\ cand = [i \in Views |-> 1]
    /\ def = [i \in Views |-> 1]
    /\ comp = "eq"

\* s_i.get(): isSelected(f()), createSelector(this.get, comp) applied to the candidate
ViewGet(i) == Comp(comp, cand[i], parent)

\* Variant of ViewSet: set(true) writes the default instead of the candidate
ViewSet_TrueWritesDef(i, b) ==
    /\ parent' = (IF b THEN def[i]
                  ELSE IF ~Comp(comp, cand[i], parent) THEN parent
                  ELSE def[i])
    /\ last' = OpP("vset", i, IF b THEN 1 ELSE 0, parent)
    /\ UNCHANGED <<cand, def, comp>>
    /\ UNCHANGED <<deferVars, sourceVars, cellVars>>

\* Variant of ViewSet: set(false) returns without the final write
ViewSet_FalseNeverWrites(i, b) ==
    /\ parent' = (IF b THEN cand[i] ELSE parent)
    /\ last' = OpP("vset", i, IF b THEN 1 ELSE 0, parent)
    /\ UNCHANGED <<cand, def, comp>>
    /\ UNCHANGED <<deferVars, sourceVars, cellVars>>

\* Variant of ViewSet: set(false) without the comp test
ViewSet_FalseAlwaysWrites(i, b) ==
    /\ parent' = (IF b THEN cand[i] ELSE def[i])
    /\ last' = OpP("vset", i, IF b THEN 1 ELSE 0, parent)
    /\ UNCHANGED <<cand, def, comp>>
    /\ UNCHANGED <<deferVars, sourceVars, cellVars>>

\* s_i.set(b): value = f(); if (b) p.value = value;
\* else if (!comp(value, p.value)) return; else p.value = def
ViewSet(i, b) ==
    /\ parent' = (IF b THEN cand[i]
                  ELSE IF ~Comp(comp, cand[i], parent) THEN parent
                  ELSE def[i])
    /\ last' = OpP("vset", i, IF b THEN 1 ELSE 0, parent)
    /\ UNCHANGED <<cand, def, comp>>
    /\ UNCHANGED <<deferVars, sourceVars, cellVars>>

\* p.set(v): a write made directly to the parent
ParentSet(v) ==
    /\ parent' = v
    /\ last' = OpP("pset", 0, v, parent)
    /\ UNCHANGED <<cand, def, comp>>
    /\ UNCHANGED <<deferVars, sourceVars, cellVars>>

\* the candidate accessor of view i returns another value from now on
CandSet(i, v) ==
    /\ v # cand[i]
    /\ cand' = [cand EXCEPT ![i] = v]
    /\ last' = Op("cand", i, v)
    /\ UNCHANGED <<parent, def, comp>>
    /\ UNCHANGED <<deferVars, sourceVars, cellVars>>

SelectorNext ==
    \/ \E i \in Views, b \in BOOLEAN : ViewSet(i, b)
    \/ \E v \in Values : ParentSet(v)
    \/ \E i \in Views, v \in Values : CandSet(i, v)

\* ================================================================== unwrap

\* u = Atom.unwrap(f) with f = () => props.atom: propAtom is the Atom f returns
\* now (never undefined here) and ext holds the values of the Atoms' cells

UnwrapInit ==
    /\ propAtom = 1
    /\ enabled = TRUE
    /\ ext \in [1..NExt -> Values]
    /\ local = << >>
    /\ target = <<"ext", 1>>
    /\ fbWritten = 0
    /\ wasExt = FALSE

\* u.get(), also when unpacked from u: f().value
UnwrapGet == ext[propAtom]

\* Variant of UnwrapSet: the Atom is resolved once, when unwrap is called
UnwrapSet_Stale(w) ==
    /\ ext' = [ext EXCEPT ![1] = w]
    /\ last' = OpP("uset", propAtom, w, ext)
    /\ UNCHANGED <<propAtom, enabled, local, target, fbWritten, wasExt>>
    /\ UNCHANGED <<deferVars, selectorVars, cellVars>>

\* u.set(w), also when unpacked from u: f().value = w
UnwrapSet(w) ==
    /\ ext' = [ext EXCEPT ![propAtom] = w]
    /\ last' = OpP("uset", propAtom, w, ext)
    /\ UNCHANGED <<propAtom, enabled, local, target, fbWritten, wasExt>>
    /\ UNCHANGED <<deferVars, selectorVars, cellVars>>

\* f's result changes to the Atom x
UnwrapRetarget(x) ==
    /\ x # propAtom
    /\ propAtom' = x
    /\ last' = OpP("retarget", propAtom, x, ext)
    /\ UNCHANGED <<enabled, ext, local, target, fbWritten, wasExt>>
    /\ UNCHANGED <<deferVars, selectorVars, cellVars>>

UnwrapNext ==
    \/ \E w \in Values : UnwrapSet(w)
    \/ \E x \in 1..NExt : UnwrapRetarget(x)
    \/ \E i \in 1..NExt, w \in Values : ExtSet(i, w)

\* ==================================================================== cell

\* What a cell can hold and a setter can be given: a plain value k, or the
\* function _ => k. Wrap(x) is the function () => x.
Plain(k) == <<"val", k>>
Fn(k) == <<"fn", k>>
Wrap(x) == <<"wrap", x>>
Payloads == {Plain(k) : k \in Values} \cup {Fn(k) : k \in Values}

\* The Setter of a Signal: a function is called as an updater of the previous
\* value, anything else is stored
SignalSet(arg, prev) ==
    IF arg[1] = "wrap" THEN arg[2]
    ELSE IF arg[1] = "fn" THEN Plain(arg[2])
    ELSE arg

\* Variant of FromSet: the payload goes to the Setter as it is
FromSet_NoWrap(v, prev) == SignalSet(v, prev)

\* The setter made by Atom.from: v => set(() => v); gives the cell's new value
FromSet(v, prev) == SignalSet(Wrap(v), prev)

\* The conversions given to convert: inverse bijections, a rotation of the values
To(x) == <<x[1], (x[2] % NumVals) + 1>>
From(y) == <<y[1], ((y[2] + NumVals - 2) % NumVals) + 1>>

\* The functions given to update: IDENTITY (the default) and a successor
UpdateFns == {"identity", "succ"}
UpdateApply(f, p) == IF f = "identity" THEN p ELSE To(p)

CellInit ==
    /\ cell \in Payloads
    /\ ret = cell
    /\ err = FALSE
    /\ dep = FALSE
    /\ nw = 0
    /\ lastW = cell

CellIdle ==
    /\ cell = Plain(1)
    /\ ret = Plain(1)
    /\ err = FALSE
    /\ dep = FALSE
    /\ nw = 0
    /\ lastW = Plain(1)

\* one call a.set(x)
Write(x) ==
    /\ cell' = FromSet(x, cell)
    /\ lastW' = x
    /\ nw' = 1

\* a.set(x), a.value = x
ValueSet(x) ==
    /\ Write(x)
    /\ err' = FALSE
    /\ last' = OpP("cellset", 0, x, cell)
    /\ UNCHANGED <<ret, dep>>
    /\ UNCHANGED <<deferVars, sourceVars, selectorVars>>

\* a.get(), a.value read inside the calling computation: a tracked read
ValueGet ==
    /\ ret' = cell
    /\ dep' = TRUE
    /\ err' = FALSE
    /\ nw' = 0
    /\ last' = OpP("cellget", 0, 0, cell)
    /\ UNCHANGED <<cell, lastW>>
    /\ UNCHANGED <<deferVars, sourceVars, selectorVars>>

\* the calling computation runs again: its dependencies are dropped
Rerun ==
    /\ dep
    /\ dep' = FALSE
    /\ err' = FALSE
    /\ nw' = 0
    /\ last' = OpP("rerun", 0, 0, cell)
    /\ UNCHANGED <<cell, ret, lastW>>
    /\ UNCHANGED <<deferVars, sourceVars, selectorVars>>

\* Variant of Update: the current value is read with a tracked read
Update_Tracked(f) ==
    /\ Write(UpdateApply(f, cell))
    /\ ret' = UpdateApply(f, cell)
    /\ dep' = TRUE
    /\ err' = FALSE
    /\ last' = OpP("update", 0, 0, <<cell, dep, f>>)
    /\ UNCHANGED <<deferVars, sourceVars, selectorVars>>

\* a.update(f): out = f(untrack(this.get)); this.set(out); return out
Update(f) ==
    /\ Write(UpdateApply(f, cell))
    /\ ret' = UpdateApply(f, cell)
    /\ dep' = dep
    /\ err' = FALSE
    /\ last' = OpP("update", 0, 0, <<cell, dep, f>>)
    /\ UNCHANGED <<deferVars, sourceVars, selectorVars>>

\* c.get(), c.value read: to(this.value)
ConvertRead == To(cell)

ConvertGet ==
    /\ ret' = ConvertRead
    /\ dep' = TRUE
    /\ err' = FALSE
    /\ nw' = 0
    /\ last' = OpP("cget", 0, 0, cell)
    /\ UNCHANGED <<cell, lastW>>
    /\ UNCHANGED <<deferVars, sourceVars, selectorVars>>

\* Variant of ConvertSet: the conversions exchanged
ConvertSet_Swapped(w) ==
    /\ Write(To(w))
    /\ err' = FALSE
    /\ last' = OpP("cset", 0, w, cell)
    /\ UNCHANGED <<ret, dep>>
    /\ UNCHANGED <<deferVars, sourceVars, selectorVars>>

\* c.set(w), c.value = w: this.value = from(w)
ConvertSet(w) ==
    /\ Write(From(w))
    /\ err' = FALSE
    /\ last' = OpP("cset", 0, w, cell)
    /\ UNCHANGED <<ret, dep>>
    /\ UNCHANGED <<deferVars, sourceVars, selectorVars>>

\* r.get(), r.value read: g(), here g = a.get
ReadOnlyGet ==
    /\ ret' = cell
    /\ dep' = TRUE
    /\ err' = FALSE
    /\ nw' = 0
    /\ last' = OpP("rget", 0, 0, cell)
    /\ UNCHANGED <<cell, lastW>>
    /\ UNCHANGED <<deferVars, sourceVars, selectorVars>>

\* Variant of ReadOnlySet: the write is forwarded to a instead of THROW
ReadOnlySet_Forwards(x) ==
    /\ Write(x)
    /\ err' = FALSE
    /\ last' = OpP("rset", 0, x, cell)
    /\ UNCHANGED <<ret, dep>>
    /\ UNCHANGED <<deferVars, sourceVars, selectorVars>>

\* r.set(x), r.value = x: THROW
ReadOnlySet(x) ==
    /\ err' = TRUE
    /\ nw' = 0
    /\ last' = OpP("rset", 0, x, cell)
    /\ UNCHANGED <<cell, ret, dep, lastW>>
    /\ UNCHANGED <<deferVars, sourceVars, selectorVars>>

CellNext ==
    \/ \E x \in Payloads : ValueSet(x)
    \/ ValueGet
    \/ Rerun
    \/ \E f \in UpdateFns : Update(f)
    \/ ConvertGet
    \/ \E w \in Payloads : ConvertSet(w)
    \/ ReadOnlyGet
    \/ \E x \in Payloads : ReadOnlySet(x)

LastInit == last = Op("init", 0, 0)

\* ========================================================== specifications

InitDefer == DeferInit /\ SourceIdle /\ SelectorIdle /\ CellIdle /\ LastInit
SpecDefer == InitDefer /\ [][DeferNext]_vars

InitDeferAny == DeferInit /\ SourceIdle /\ SelectorIdle /\ CellIdle /\ LastInit
SpecDeferAny == InitDeferAny /\ [][DeferAnyNext]_vars

InitSource == SourceInit /\ DeferIdle /\ SelectorIdle /\ CellIdle /\ LastInit
SpecSource == InitSource /\ [][SourceNext]_vars

InitSelector == SelectorInit /\ DeferIdle /\ SourceIdle /\ CellIdle /\ LastInit
SpecSelector == InitSelector /\ [][SelectorNext]_vars

InitUnwrap == UnwrapInit /\ DeferIdle /\ SelectorIdle /\ CellIdle /\ LastInit
SpecUnwrap == InitUnwrap /\ [][UnwrapNext]_vars

InitCell == CellInit /\ DeferIdle /\ SourceIdle /\ SelectorIdle /\ LastInit
SpecCell == InitCell /\ [][CellNext]_vars

\* ===================================================== properties of defer

\* C1: a deferred write that was superseded by a later d.set call before its
\* own trigger fired is never written to the underlying Atom a.
C1_SupersededNeverWritten ==
    \A k \in superseded : \A j \in 1..Len(written) : written[j] # k

\* C2: once no trigger is outstanding and every resumed setter has finished,
\* the last write that reached a is the one of the most recent d.set call.
C2_LastSetLands ==
    (Outstanding = {} /\ micro = << >> /\ calls # << >>)
        => (written # << >> /\ written[Len(written)] = Len(calls))

\* C3: at most one scheduled write is outstanding, and whenever one is
\* outstanding the clear slot holds the cancel callback of exactly that write.
C3_OneOutstandingHeldBySlot ==
    /\ Cardinality(Outstanding) <= 1
    /\ \A k \in Outstanding : clear = k

\* C16: a d.set call never invokes the cancel callback of a write whose
\* trigger has already fired, and the resumption of a fired write never erases
\* the cancel callback a later d.set call has stored.
C16_SlotIdleFromFiring ==
    /\ (last.op = "dset" /\ last.p # NO_OP => calls[last.p].st = "cancelled")
    /\ (last.op = "resume" /\ last.p # NO_OP /\ last.p # last.i => clear = last.p)

\* C17: d.set(v) leaves a's value as it is; a's value changes only by a write
\* made directly to a or when the setter of a call whose trigger has fired
\* resumes, and then to that call's value; d.get() is a's value throughout.
C17_PendingNotVisible ==
    [][/\ (last'.op = "dset" => aVal' = aVal)
       /\ (aVal' # aVal
             => \/ last'.op = "aset"
                \/ /\ last'.op = "resume"
                   /\ calls[last'.i].st = "fired"
                   /\ aVal' = calls[last'.i].v)
       /\ (last'.op = "aset" => DeferGet' = last'.v)
       /\ DeferGet' = aVal']_vars

C17_Witness ==
    /\ last.op = "dset"
    /\ aVal # last.v
    /\ DeferGet = aVal
    /\ written # << >>

Writes(k) == {j \in 1..Len(written) : written[j] = k}

\* C18: whatever the scheduler does with the triggers, the value of a call of
\* d.set is written to a at most once, and not at all while its trigger has
\* never been invoked.
C18_AtMostOneWrite ==
    \A k \in 1..Len(calls) :
        /\ Cardinality(Writes(k)) <= 1
        /\ (calls[k].st \in {"scheduled", "cancelled"} => Writes(k) = {})
        /\ (calls[k].st = "done" => Cardinality(Writes(k)) = 1)

C18_Witness ==
    /\ last.op = "invoke"
    /\ last.p = "done"
    /\ Cardinality(Writes(last.i)) = 1
    /\ \E k \in 1..Len(calls) : calls[k].st = "cancelled"

\* ==================================================== properties of source

\* C4 (as stated): bind returns undefined, v is written through s, bind then
\* returns an external Atom and later undefined again: reading s returns v.
C4_FallbackSurvivesRebind ==
    (Bind = Undef /\ fbWritten # 0 /\ wasExt) => SourceGet = fbWritten

\* C4 (amended): in that situation s reads the initial value of a fresh cell
\* made by the cell factory; the cell that held v is no longer the target.
C4_FreshFallbackAfterRebind ==
    (Bind = Undef /\ fbWritten # 0 /\ wasExt)
        => /\ Len(local) >= 2
           /\ target = <<"loc", Len(local)>>
           /\ SourceGet = FactoryInit

C4_Witness ==
    /\ Bind = Undef /\ wasExt
    /\ fbWritten # 0 /\ fbWritten # FactoryInit
    /\ last.op = "bind" /\ last.i # Undef

C6_ForwardsToExternal ==
    /\ [](Bind # Undef => (target = <<"ext", Bind>> /\ SourceGet = ext[Bind]))
    /\ [][(last'.op = "sset" /\ Bind # Undef)
             => (ext' = [ext EXCEPT ![Bind] = last'.v] /\ local' = local)]_vars

C6_Witness ==
    /\ last.op = "sset" /\ Bind # Undef
    /\ ext[Bind] = last.v
    /\ \E n \in 1..Len(local) : local[n] # last.v
    /\ \E i \in 1..NExt : ext[i] # last.v

\* C7: a change of bind's result writes to no existing cell; after a switch to
\* undefined the fallback holds the factory's initial value, not a copy of E's;
\* a write through s changes only the cell that is active.
C7_NoSynchronization ==
    [][/\ (last'.op = "bind"
             => /\ ext' = ext
                /\ \A n \in 1..Len(local) : local'[n] = local[n])
       /\ (last'.op = "bind" /\ Bind # Undef /\ Bind' = Undef
             => SourceGet' = FactoryInit)
       /\ (last'.op = "sset" /\ Bind # Undef => local' = local)
       /\ (last'.op = "sset" /\ Bind = Undef => ext' = ext)]_vars

C7_Witness ==
    /\ last.op = "bind" /\ last.i # Undef /\ last.v = Undef
    /\ ext[last.i] # FactoryInit
    /\ SourceGet = FactoryInit

\* ================================================== properties of selector

Distinct == \A i, j \in Views : i # j => cand[i] # cand[j]

C9_DeselectWritesDefault ==
    (last.op = "vset" /\ last.v = 0 /\ Comp(comp, cand[last.i], last.p))
        => (parent = def[last.i] /\ parent \in Values)

C9_Witness ==
    /\ last.op = "vset" /\ last.v = 0
    /\ Comp(comp, cand[last.i], last.p)
    /\ last.p # def[last.i]
    /\ parent = def[last.i]

\* C10: s.set(false) called while the view's candidate is not selected leaves
\* the parent, and so what every view reads, as it was.
C10_DeselectOtherIsNoOp ==
    (last.op = "vset" /\ last.v = 0 /\ ~Comp(comp, cand[last.i], last.p))
        => /\ parent = last.p
           /\ \A j \in Views : ViewGet(j) = Comp(comp, cand[j], last.p)

C10_Witness ==
    /\ last.op = "vset" /\ last.v = 0
    /\ ~Comp(comp, cand[last.i], last.p)
    /\ parent # def[last.i]
    /\ \E j \in Views : j # last.i /\ ViewGet(j)

\* ==================================================== properties of unwrap

\* C11: a write of u changes the Atom f returns now and no other; after f's
\* result changed to another Atom, u reads that Atom's value and the change
\* itself wrote nothing.
C11_UnwrapFollowsAccessor ==
    /\ (last.op = "uset"
          => /\ ext = [last.p EXCEPT ![propAtom] = last.v]
             /\ UnwrapGet = last.v)
    /\ (last.op = "retarget"
          => /\ UnwrapGet = ext[last.v]
             /\ ext = last.p)

C11_Witness ==
    /\ last.op = "uset"
    /\ propAtom = 2
    /\ ext[2] = last.v
    /\ ext[1] # last.v

\* ================== properties of readOnly, value / from, update, convert

\* C12: a read of r returns g() without error; a write to r raises an error,
\* makes no call of a setter and leaves the cell as it was.
C12_ReadOnlyThrows ==
    /\ (last.op = "rget" => (~err /\ ret = cell))
    /\ (last.op = "rset" => (err /\ nw = 0 /\ cell = last.p))

C12_Witness ==
    /\ last.op = "rset"
    /\ err
    /\ last.v # cell

\* C13: the cell of a = Atom.value(v) holds the value of the last write (v if
\* none) as soon as set has returned, a function included, and a read returns it.
C13_ValueRoundTrip ==
    /\ cell = lastW
    /\ (last.op = "cellset" => cell = last.v)
    /\ (last.op = "cellget" => ret = lastW)

C13_Witness ==
    /\ last.op = "cellset"
    /\ last.v[1] = "fn"
    /\ cell = last.v
    /\ last.p # last.v

\* C14: a.update(f) makes exactly one call a.set(f(p)), p being the value the
\* cell held, returns f(p) and leaves the caller's dependencies as they were;
\* with the default f the value written and returned is p.
C14_UpdateUntracked ==
    last.op = "update"
        => /\ nw = 1
           /\ lastW = UpdateApply(last.p[3], last.p[1])
           /\ ret = lastW
           /\ dep = last.p[2]
           /\ (last.p[3] = "identity" => (lastW = last.p[1] /\ ret = last.p[1]))

C14_Witness ==
    /\ last.op = "update"
    /\ last.p[3] = "succ"
    /\ ~dep
    /\ ret # last.p[1]
    /\ cell = ret

\* C15: c reads to(a.value) in every state, so a write made to a shows in c;
\* after c.value = w, a holds from(w) and c reads w.
C15_ConvertRoundTrip ==
    /\ ConvertRead = To(lastW)
    /\ (last.op = "cget" => ret = To(cell))
    /\ (last.op = "cset" => (cell = From(last.v) /\ ConvertRead = last.v))

C15_Witness ==
    /\ last.op = "cset"
    /\ ConvertRead = last.v
    /\ cell # last.v
    /\ cell # last.p

====
